---- MODULE Spec2Model ----
(***************************************************************************)
(* A model of gograte: the mage targets Up and Down (magefile), PSQLArgs,  *)
(* readDDLFiles, newDDLFile and the PostgreSQLDSN encoders (gograte.go).   *)
(*                                                                         *)
(* A Go string is modelled as a sequence of one-character strings, so that *)
(* slicing, strings.Index, strconv.Atoi and the net/url escaping are       *)
(* computed character by character as the code computes them.              *)
(***************************************************************************)
EXTENDS Integers, Sequences, FiniteSets, TLC

\* ------------------------------------------------------------------ bounds
\* Longest file name handed to newDDLFile on its own (SpecParse).
MaxNameLen == 3
\* Most entries a migration directory holds (Spec).
MaxEntries == 3

\* -------------------------------------------------------------- characters
Digits == <<"0", "1", "2", "3", "4", "5", "6", "7", "8", "9">>
Lower == <<"a", "b", "c", "d", "e", "f", "g", "h", "i", "j", "k", "l", "m",
           "n", "o", "p", "q", "r", "s", "t", "u", "v", "w", "x", "y", "z">>

Range(s) == {s[i] : i \in 1..Len(s)}

IndexIn(c, s) == CHOOSE i \in 1..Len(s) : s[i] = c

IsDigit(c) == c \in Range(Digits)

\* ch - '0' of strconv.Atoi
DigitVal(c) == IndexIn(c, Digits) - 1

\* The byte value of a character (ASCII), for the characters the model uses.
Punct == [c \in {" ", "%", "(", ")", "+", ",", "-", ".", "/", ":", "=", "?", "@", "_"} |->
            CASE c = " " -> 32 [] c = "%" -> 37 [] c = "(" -> 40 [] c = ")" -> 41
              [] c = "+" -> 43 [] c = "," -> 44 [] c = "-" -> 45 [] c = "." -> 46
              [] c = "/" -> 47 [] c = ":" -> 58 [] c = "=" -> 61 [] c = "?" -> 63
              [] c = "@" -> 64 [] c = "_" -> 95]

Byte(c) == IF c \in Range(Digits) THEN 48 + DigitVal(c)
           ELSE IF c \in Range(Lower) THEN 96 + IndexIn(c, Lower)
           ELSE Punct[c]

\* ------------------------------------------------------------ Go strings
\* strings.Index(f, "-"): the 0-based index of the first sep, or -1.
StringsIndex(f, sep) ==
    IF \E i \in 1..Len(f) : f[i] = sep
    THEN (CHOOSE i \in 1..Len(f) : f[i] = sep /\ \A j \in 1..(i - 1) : f[j] # sep) - 1
    ELSE -1

\* Go's s[lo:hi] with 0-based bounds, for bounds that are in range.
Slice(s, lo, hi) == SubSeq(s, lo + 1, hi)

\* strconv.Itoa / fmt's %d: base-10 digits, a leading "-" for a negative n.
RECURSIVE NatDigits(_)
NatDigits(n) == IF n < 10 THEN <<Digits[n + 1]>>
                ELSE NatDigits(n \div 10) \o <<Digits[(n % 10) + 1]>>

Itoa(n) == IF n < 0 THEN <<"-">> \o NatDigits(0 - n) ELSE NatDigits(n)

\* ---------------------------------------------------------- strconv.Atoi
\* The accumulation loop of Atoi over the digits left to read:
\* n = n*10 + int(ch), a syntax error on the first byte that is no digit.
RECURSIVE AtoiLoop(_, _)
AtoiLoop(s, n) ==
    IF s = <<>> THEN [ok |-> TRUE, n |-> n]
    ELSE IF ~IsDigit(Head(s)) THEN [ok |-> FALSE, n |-> 0]
    ELSE AtoiLoop(Tail(s), n * 10 + DigitVal(Head(s)))

\* strconv.Atoi for strings shorter than 19 bytes (the fast path, where no
\* value overflows an int): an optional sign, then at least one digit.
Atoi(s) ==
    IF s = <<>> THEN [ok |-> FALSE, n |-> 0]
    ELSE LET signed == Head(s) \in {"-", "+"}
             body   == IF signed THEN Tail(s) ELSE s
             r      == AtoiLoop(body, 0)
         IN  IF body = <<>> THEN [ok |-> FALSE, n |-> 0]
             ELSE IF ~r.ok THEN r
             ELSE IF Head(s) = "-" THEN [ok |-> TRUE, n |-> 0 - r.n]
             ELSE r

\* ------------------------------------------------------------- newDDLFile
\* The zero value ddlFile{}.
ZeroDDLFile == [filename |-> <<>>, fileNumber |-> 0]

OutOk(df) == [kind |-> "ok", df |-> df, err |-> "nil"]
OutErr(e) == [kind |-> "err", df |-> ZeroDDLFile, err |-> e]
\* f[:i] with i = -1: a run-time panic, slice bounds out of range.
OutPanic == [kind |-> "panic", df |-> ZeroDDLFile, err |-> "slice bounds out of range"]

newDDLFile(f) ==
    LET i == StringsIndex(f, "-")
    IN  IF i < 0 THEN OutPanic
        ELSE LET fileNumber == Slice(f, 0, i)
                 fn         == Atoi(fileNumber)
             IN  IF ~fn.ok THEN OutErr("strconv.Atoi: invalid syntax")
                 ELSE OutOk([filename |-> f, fileNumber |-> fn.n])

\* ------------------------------------------------------- string literals
S_postgresql == <<"p", "o", "s", "t", "g", "r", "e", "s", "q", "l">>
S_options == <<"o", "p", "t", "i", "o", "n", "s">>
S_csearch_path == <<"-", "c", "s", "e", "a", "r", "c", "h", "_", "p", "a", "t", "h", "=">>
S_host == <<"h", "o", "s", "t", "=">>
S_port == <<" ", "p", "o", "r", "t", "=">>
S_dbname == <<" ", "d", "b", "n", "a", "m", "e", "=">>
S_user == <<" ", "u", "s", "e", "r", "=">>
S_password == <<" ", "p", "a", "s", "s", "w", "o", "r", "d", "=">>
S_sslmode_disable == <<" ", "s", "s", "l", "m", "o", "d", "e", "=", "d", "i", "s", "a", "b", "l", "e">>
S_search_path == <<"s", "e", "a", "r", "c", "h", "_", "p", "a", "t", "h", "=">>
S_up == <<"/", "u", "p">>
S_down == <<"/", "d", "o", "w", "n">>
S_w == <<"-", "w">>
S_d == <<"-", "d">>
S_c == <<"-", "c">>
S_f == <<"-", "f">>
S_select == <<"s", "e", "l", "e", "c", "t", " ", "c", "u", "r", "r", "e", "n", "t", "_", "d", "a", "t", "a", "b", "a", "s", "e", "(", ")", ",", " ", "c", "u", "r", "r", "e", "n", "t", "_", "u", "s", "e", "r", ",", " ", "v", "e", "r", "s", "i", "o", "n", "(", ")">>

\* ---------------------------------------------------------------- net/url
\* url.shouldEscape(c, mode) for the modes ConnectionURI goes through:
\* "host", "path", "userPassword", "queryComponent".
HostAllowed == {"!", "$", "&", "'", "(", ")", "*", "+", ",", ";", "=", ":", "[", "]", "<", ">"}
Reserved == {"$", "&", "+", ",", "/", ":", ";", "=", "?", "@"}

shouldEscape(c, mode) ==
    IF c \in Range(Lower) \cup Range(Digits) THEN FALSE
    ELSE IF mode = "host" /\ c \in HostAllowed THEN FALSE
    ELSE IF c \in {"-", "_", ".", "~"} THEN FALSE
    ELSE IF c \in Reserved THEN
        CASE mode = "path" -> c = "?"
          [] mode = "userPassword" -> c \in {"@", "/", "?", ":"}
          [] mode = "queryComponent" -> TRUE
          [] OTHER -> TRUE
    ELSE TRUE

UpperHex == <<"0", "1", "2", "3", "4", "5", "6", "7", "8", "9", "A", "B", "C", "D", "E", "F">>

\* url.escape: %XX for a byte that must be escaped, "+" for a space of a
\* query component.
RECURSIVE escape(_, _)
escape(s, mode) ==
    IF s = <<>> THEN <<>>
    ELSE LET c == Head(s)
             e == IF ~shouldEscape(c, mode) THEN <<c>>
                  ELSE IF c = " " /\ mode = "queryComponent" THEN <<"+">>
                  ELSE <<"%", UpperHex[(Byte(c) \div 16) + 1], UpperHex[(Byte(c) % 16) + 1]>>
         IN  e \o escape(Tail(s), mode)

\* url.Values.Encode over the key/value pairs of q (here at most one key):
\* QueryEscape(key) "=" QueryEscape(value), joined by "&".
RECURSIVE ValuesEncode(_)
ValuesEncode(q) ==
    IF q = <<>> THEN <<>>
    ELSE escape(Head(q).key, "queryComponent") \o <<"=">>
         \o escape(Head(q).value, "queryComponent")
         \o (IF Tail(q) = <<>> THEN <<>> ELSE <<"&">> \o ValuesEncode(Tail(q)))

\* url.URL.String for a URL with Scheme, User (never nil here), Host, Path
\* and RawQuery set, and no Opaque, RawPath or Fragment.
URLString(u) ==
    LET scheme == IF u.Scheme # <<>> THEN u.Scheme \o <<":">> ELSE <<>>
        userinfo == escape(u.User.username, "userPassword")
                    \o (IF u.User.passwordSet
                        THEN <<":">> \o escape(u.User.password, "userPassword")
                        ELSE <<>>)
        authority == <<"/", "/">> \o userinfo \o <<"@">>
                     \o (IF u.Host # <<>> THEN escape(u.Host, "host") ELSE <<>>)
        path == escape(u.Path, "path")
        slash == IF path # <<>> /\ Head(path) # "/" /\ u.Host # <<>> THEN <<"/">> ELSE <<>>
        query == IF u.RawQuery # <<>> THEN <<"?">> \o u.RawQuery ELSE <<>>
    IN  scheme \o authority \o slash \o path \o query

\* ---------------------------------------------------------- PostgreSQLDSN
newPostgreSQLDSN(f) ==
    [Host |-> f.Config.Database.Host,
     Port |-> f.Config.Database.Port,
     DBName |-> f.Config.Database.Name,
     SearchPath |-> f.Config.Database.SearchPath,
     User |-> f.Config.Database.User,
     Password |-> f.Config.Database.Password]

\* A variant of url.User(dsn.User) that carries the password as
\* url.UserPassword does.
UserinfoWithPassword(dsn) ==
    [username |-> dsn.User, password |-> dsn.Password, passwordSet |-> TRUE]

\* url.User(dsn.User)
Userinfo(dsn) ==
    [username |-> dsn.User, password |-> <<>>, passwordSet |-> FALSE]

\* A variant of the host computation that appends the port unconditionally.
HostPortAlways(dsn) == dsn.Host \o <<":">> \o Itoa(dsn.Port)

\* h of ConnectionURI: the host, then ":port" when the port is set.
HostPort(dsn) ==
    IF dsn.Port # 0 THEN dsn.Host \o <<":">> \o Itoa(dsn.Port) ELSE dsn.Host

ConnectionURI(dsn) ==
    LET u == [Scheme |-> S_postgresql,
              User |-> Userinfo(dsn),
              Host |-> HostPort(dsn),
              Path |-> dsn.DBName,
              RawQuery |-> <<>>]
    IN  IF dsn.SearchPath # <<>>
        THEN LET q == <<[key |-> S_options, value |-> S_csearch_path \o dsn.SearchPath]>>
             IN  URLString([u EXCEPT !.RawQuery = ValuesEncode(q)])
        ELSE URLString(u)

\* A variant of the password switch that always writes the password segment.
PasswordSegmentAlways(dsn) ==
    S_host \o dsn.Host \o S_port \o Itoa(dsn.Port) \o S_dbname \o dsn.DBName
    \o S_user \o dsn.User \o S_password \o dsn.Password \o S_sslmode_disable

\* The first switch of KeywordValueConnectionString: s by dsn.Password.
KeywordValueBase(dsn) ==
    IF dsn.Password = <<>>
    THEN S_host \o dsn.Host \o S_port \o Itoa(dsn.Port) \o S_dbname \o dsn.DBName
         \o S_user \o dsn.User \o S_sslmode_disable
    ELSE S_host \o dsn.Host \o S_port \o Itoa(dsn.Port) \o S_dbname \o dsn.DBName
         \o S_user \o dsn.User \o S_password \o dsn.Password \o S_sslmode_disable

KeywordValueConnectionString(dsn) ==
    LET s == KeywordValueBase(dsn)
    IN  IF dsn.SearchPath = <<>> THEN s
        ELSE s \o <<" ">> \o S_search_path \o dsn.SearchPath

S_config_dir == <<".", "/", "c", "o", "n", "f", "i", "g", "/">>
S_json == <<".", "j", "s", "o", "n">>
S_default == <<"d", "e", "f", "a", "u", "l", "t">>
S_test == <<"t", "e", "s", "t">>

\* ------------------------------------------------------------ file system
\* Go's string comparison: byte-wise lexicographic order.
RECURSIVE StrLess(_, _)
StrLess(a, b) ==
    IF b = <<>> THEN FALSE
    ELSE IF a = <<>> THEN TRUE
    ELSE IF Head(a) = Head(b) THEN StrLess(Tail(a), Tail(b))
    ELSE Byte(Head(a)) < Byte(Head(b))

\* The entries of a directory as os.ReadDir lists them: sorted by filename.
RECURSIVE SortByName(_)
SortByName(S) ==
    IF S = {} THEN <<>>
    ELSE LET m == CHOOSE e \in S : \A o \in S \ {e} : StrLess(e.name, o.name)
         IN  <<m>> \o SortByName(S \ {m})

MissingDir == [exists |-> FALSE, entries |-> <<>>]

\* os.ReadDir(dir): the directory at that path, or an error when none is there.
ReadDir(dir, fsys) == IF dir \in DOMAIN fsys THEN fsys[dir] ELSE MissingDir

\* The zero value ConfigFile{}.
ZeroConfigFile ==
    [Config |-> [Database |-> [Host |-> <<>>, Port |-> 0, Name |-> <<>>, User |-> <<>>,
                               Password |-> <<>>, SearchPath |-> <<>>],
                 MigrationScriptsDir |-> <<>>]]

\* NewConfigFile: os.ReadFile, then json.Unmarshal, over the files at hand.
NewConfigFile(configFilePath, files) ==
    IF configFilePath \notin DOMAIN files \/ files[configFilePath].state = "missing"
    THEN [err |-> "os.ReadFile", f |-> ZeroConfigFile]
    ELSE IF files[configFilePath].state = "malformed"
    THEN [err |-> "json.Unmarshal", f |-> ZeroConfigFile]
    ELSE [err |-> "nil", f |-> [Config |-> files[configFilePath].Config]]

\* ---------------------------------------------------------- readDDLFiles
\* A variant of Less that orders by descending fileNumber.
byFileNumberGreater(a, b) == a.fileNumber > b.fileNumber

\* byFileNumber.Less
byFileNumberLess(a, b) == a.fileNumber < b.fileNumber

Perms(n) == {p \in [1..n -> 1..n] : \A i, j \in 1..n : i # j => p[i] # p[j]}

\* A variant of the sort call that leaves the slice as it was appended.
sortSortSkipped(data) == {data}

\* sort.Sort(byFileNumber(data)): the elements of data rearranged so that no
\* element is Less than one before it.  sort.Sort is documented as not
\* stable, so every such arrangement is a possible outcome: which one comes
\* out for elements with equal fileNumbers depends on the Go release and on
\* the length of the slice.
sortSort(data) ==
    LET n == Len(data)
    IN  {[i \in 1..n |-> data[p[i]]] : p \in
            {q \in Perms(n) : \A i, j \in 1..n :
                i < j => ~byFileNumberLess(data[q[j]], data[q[i]])}}

ListOk(files) == [kind |-> "ok", ddlFiles |-> files, err |-> "nil"]
ListFail(kind, e) == [kind |-> kind, ddlFiles |-> <<>>, err |-> e]

\* A variant of the loop without the IsDir test.
RECURSIVE readLoopNoDirTest(_, _)
readLoopNoDirTest(files, ddlFiles) ==
    IF files = <<>> THEN ListOk(ddlFiles)
    ELSE LET r == newDDLFile(Head(files).name)
         IN  IF r.kind # "ok" THEN ListFail(r.kind, r.err)
             ELSE readLoopNoDirTest(Tail(files), Append(ddlFiles, r.df))

\* The range loop of readDDLFiles over the entries left, ddlFiles being the
\* slice appended to so far.
RECURSIVE readLoop(_, _)
readLoop(files, ddlFiles) ==
    IF files = <<>> THEN ListOk(ddlFiles)
    ELSE IF Head(files).isDir THEN readLoop(Tail(files), ddlFiles)
    ELSE LET r == newDDLFile(Head(files).name)
         IN  IF r.kind # "ok" THEN ListFail(r.kind, r.err)
             ELSE readLoop(Tail(files), Append(ddlFiles, r.df))

\* readDDLFiles(dir): the set of results it can return.
readDDLFiles(dir, fsys) ==
    LET d == ReadDir(dir, fsys)
    IN  IF ~d.exists THEN {ListFail("err", "os.ReadDir")}
        ELSE LET l == readLoop(d.entries, <<>>)
             IN  IF l.kind # "ok" THEN {l}
                 ELSE {ListOk(s) : s \in sortSort(l.ddlFiles)}

\* --------------------------------------------------------------- PSQLArgs
\* The -f pairs appended for the files left.
RECURSIVE FileArgs(_, _)
FileArgs(dir, ddlFiles) ==
    IF ddlFiles = <<>> THEN <<>>
    ELSE <<S_f, dir \o <<"/">> \o Head(ddlFiles).filename>>
         \o FileArgs(dir, Tail(ddlFiles))

NoLister == [kind |-> "none", ddlFiles |-> <<>>, err |-> "nil"]

\* What a call of PSQLArgs leaves: its results (args, err; status "panic"
\* when it does not return) and its locals dir and the result of
\* readDDLFiles (lister).
Frame(status, args, err, dir, lister) ==
    [status |-> status, args |-> args, err |-> err, dir |-> dir, lister |-> lister]

\* A variant of the directory choice that ignores the direction flag.
TargetDirAlwaysUp(f, up) == f.Config.MigrationScriptsDir \o S_up

TargetDir(f, up) ==
    IF up THEN f.Config.MigrationScriptsDir \o S_up
    ELSE f.Config.MigrationScriptsDir \o S_down

\* A variant of the len(ddlFiles) == 0 test that never reports an error.
NoFilesNever(ddlFiles) == FALSE

NoFiles(ddlFiles) == Len(ddlFiles) = 0

\* A variant of the argument construction that puts the -f pairs first.
BuildArgsFilesFirst(f, dir, ddlFiles) ==
    FileArgs(dir, ddlFiles)
    \o <<S_w, S_d, ConnectionURI(newPostgreSQLDSN(f)), S_c, S_select>>

BuildArgs(f, dir, ddlFiles) ==
    <<S_w, S_d, ConnectionURI(newPostgreSQLDSN(f)), S_c, S_select>>
    \o FileArgs(dir, ddlFiles)

\* PSQLArgs(up, profile): the set of frames a call can end in.
PSQLArgs(up, profile, files, fsys) ==
    LET configFilePath == S_config_dir \o profile \o S_json
        cf == NewConfigFile(configFilePath, files)
    IN  IF cf.err # "nil" THEN {Frame("err", <<>>, cf.err, <<>>, NoLister)}
        ELSE LET f == cf.f
                 dir == TargetDir(f, up)
             IN  {IF l.kind = "panic" THEN Frame("panic", <<>>, l.err, dir, l)
                  ELSE IF l.kind = "err" THEN Frame("err", <<>>, l.err, dir, l)
                  ELSE IF NoFiles(l.ddlFiles)
                       THEN Frame("err", <<>>, "there are no DDL files to process", dir, l)
                  ELSE Frame("ok", BuildArgs(f, dir, l.ddlFiles), "nil", dir, l)
                    : l \in readDDLFiles(dir, fsys)}

\* ------------------------------------------------------------------ state
VARIABLES
    configFiles,  \* the files under ./config: path -> [state, Config]
    fs,           \* the migration directories: path -> [exists, entries]
    dsn,          \* a PostgreSQLDSN value a caller of the package holds
    res           \* what the last call left: its inputs, results and locals

vars == <<configFiles, fs, dsn, res>>

Idle == [op |-> "none"]

ConfigOf(host, port, name, user, password, searchPath, dir) ==
    [Database |-> [Host |-> host, Port |-> port, Name |-> name, User |-> user,
                   Password |-> password, SearchPath |-> searchPath],
     MigrationScriptsDir |-> dir]

FileEntry(name) == [name |-> name, isDir |-> FALSE]
DirEntry(name) == [name |-> name, isDir |-> TRUE]

\* ----------------------------------------------------------------- inputs
\* The profiles a target is run with, and the one a config file is kept for
\* (./config/default.json).
Profiles == {S_default, S_test}

ConfigPaths == {S_config_dir \o S_default \o S_json}

BaseDir == <<"m">>

\* The configurations of the profiles in Spec.
SpecConfigs ==
    {ConfigOf(<<"h">>, 0, <<"d", "b">>, <<"u">>, <<>>, <<>>, BaseDir),
     ConfigOf(<<"h">>, 5, <<"d", "b">>, <<"u">>, <<"s">>, <<"p">>, BaseDir)}

ConfigFileStates ==
    {[state |-> "missing", Config |-> ZeroConfigFile.Config],
     [state |-> "malformed", Config |-> ZeroConfigFile.Config]}
    \cup {[state |-> "ok", Config |-> c] : c \in SpecConfigs}

\* Entries an up directory is made of: files whose numbers tie, files whose
\* name order and number order differ, a non-numeric prefix, a name without
\* "-", and subdirectories with and without a parsable name.
UpPool ==
    {FileEntry(<<"1", "-", "a">>), FileEntry(<<"1", "-", "b">>),
     FileEntry(<<"1", "0", "-", "a">>), FileEntry(<<"2", "-", "a">>),
     FileEntry(<<"x", "-", "a">>), FileEntry(<<"a", "b">>),
     DirEntry(<<"3", "-", "d">>), DirEntry(<<"z", "z">>)}

DownPool ==
    {FileEntry(<<"1", "-", "a">>), FileEntry(<<"2", "-", "z">>), DirEntry(<<"q">>)}

DirStates(pool) ==
    {MissingDir} \cup
    {[exists |-> TRUE, entries |-> SortByName(S)] :
        S \in {T \in SUBSET pool : Cardinality(T) <= MaxEntries}}

\* The values of the PostgreSQLDSN fields in SpecDSN.
Hosts == {<<>>, <<"h">>, <<"h", " ", "h">>}
Ports == {0, 54, -1}
DBNames == {<<>>, <<"d", "b">>, <<"/", "d">>, <<"d", " ", "b">>}
Users == {<<>>, <<"u">>, <<"u", "@">>}
Passwords == {<<>>, <<"p", "w">>}
SearchPaths == {<<>>, <<"p">>, <<"a", " ", "b">>, <<"a", ",", "b">>}

DSNs ==
    [Host : Hosts, Port : Ports, DBName : DBNames, SearchPath : SearchPaths,
     User : Users, Password : Passwords]

\* The file names of SpecParse: every non-empty string of at most MaxNameLen
\* characters.
NameAlphabet == {"0", "1", "7", "-", "+", "a"}

RECURSIVE NamesOfLen(_)
NamesOfLen(n) ==
    IF n = 0 THEN {<<>>}
    ELSE {Append(s, c) : s \in NamesOfLen(n - 1), c \in NameAlphabet}

FileNames == UNION {NamesOfLen(n) : n \in 1..MaxNameLen}

\* ------------------------------------------------------------------- Spec
\* The mage targets over a project's config files and migration directories.
Init ==
    /\ configFiles \in [ConfigPaths -> ConfigFileStates]
    /\ \E u \in DirStates(UpPool), d \in DirStates(DownPool) :
          fs = (BaseDir \o S_up :> u) @@ (BaseDir \o S_down :> d)
    /\ dsn = newPostgreSQLDSN(ZeroConfigFile)
    /\ res = Idle

\* What a mage target leaves: the frame of its PSQLArgs call, and the
\* sh.Run("psql", args...) that follows when PSQLArgs returned args (runErr:
\* whether psql exits with an error); psql is not run when PSQLArgs failed.
TargetResult(op, up, profile, fr, runErr) ==
    [op |-> op, up |-> up, profile |-> profile, frame |-> fr,
     psql |-> IF fr.status = "ok"
              THEN [ran |-> TRUE, args |-> fr.args, err |-> runErr]
              ELSE [ran |-> FALSE, args |-> <<>>, err |-> FALSE]]

\* mage up <profile>
Up ==
    /\ \E profile \in Profiles, runErr \in BOOLEAN :
          \E fr \in PSQLArgs(TRUE, profile, configFiles, fs) :
             res' = TargetResult("Up", TRUE, profile, fr, runErr)
    /\ UNCHANGED <<configFiles, fs, dsn>>

\* mage down <profile>
Down ==
    /\ \E profile \in Profiles, runErr \in BOOLEAN :
          \E fr \in PSQLArgs(FALSE, profile, configFiles, fs) :
             res' = TargetResult("Down", FALSE, profile, fr, runErr)
    /\ UNCHANGED <<configFiles, fs, dsn>>

Next == Up \/ Down

Spec == Init /\ [][Next]_vars

\* ---------------------------------------------------------------- SpecDSN
\* A caller holding a PostgreSQLDSN asks for its two encodings.
InitDSN ==
    /\ configFiles = [p \in ConfigPaths |->
                         [state |-> "missing", Config |-> ZeroConfigFile.Config]]
    /\ fs = (BaseDir \o S_up :> MissingDir)
    /\ dsn \in DSNs
    /\ res = Idle

CallConnectionURI ==
    /\ res' = [op |-> "ConnectionURI", out |-> ConnectionURI(dsn)]
    /\ UNCHANGED <<configFiles, fs, dsn>>

CallKeywordValueConnectionString ==
    /\ res' = [op |-> "KeywordValueConnectionString",
               out |-> KeywordValueConnectionString(dsn)]
    /\ UNCHANGED <<configFiles, fs, dsn>>

NextDSN == CallConnectionURI \/ CallKeywordValueConnectionString

SpecDSN == InitDSN /\ [][NextDSN]_vars

\* -------------------------------------------------------------- SpecParse
\* newDDLFile on a file name of its own.
InitParse ==
    /\ configFiles = [p \in ConfigPaths |->
                         [state |-> "missing", Config |-> ZeroConfigFile.Config]]
    /\ fs = (BaseDir \o S_up :> MissingDir)
    /\ dsn = newPostgreSQLDSN(ZeroConfigFile)
    /\ res = Idle

CallNewDDLFile ==
    /\ \E f \in FileNames : res' = [op |-> "newDDLFile", f |-> f, out |-> newDDLFile(f)]
    /\ UNCHANGED <<configFiles, fs, dsn>>

NextParse == CallNewDDLFile

SpecParse == InitParse /\ [][NextParse]_vars

\* ============================================================== properties
S_scheme_slashes == S_postgresql \o <<":", "/", "/">>

\* The part of a file name before its first "-" (the whole name when it has
\* none), and whether it has one.
HasDash(f) == \E i \in 1..Len(f) : f[i] = "-"

Prefix(f) ==
    LET k == IF HasDash(f)
             THEN CHOOSE i \in 1..Len(f) : f[i] = "-" /\ \A j \in 1..(i - 1) : f[j] # "-"
             ELSE Len(f) + 1
    IN  SubSeq(f, 1, k - 1)

Pow10(k) == IF k = 0 THEN 1 ELSE IF k = 1 THEN 10 ELSE IF k = 2 THEN 100
            ELSE IF k = 3 THEN 1000 ELSE IF k = 4 THEN 10000 ELSE 100000

RECURSIVE SumTo(_, _)
SumTo(term, n) == IF n = 0 THEN 0 ELSE term[n] + SumTo(term, n - 1)

\* A decimal numeral: an optional "+", then one digit or more; and its value,
\* digit d at k places from the right counting d * 10^k.
Unsigned(p) == IF p # <<>> /\ Head(p) = "+" THEN Tail(p) ELSE p

IsNumeral(p) ==
    /\ Unsigned(p) # <<>>
    /\ \A i \in 1..Len(Unsigned(p)) : Unsigned(p)[i] \in Range(Digits)

NumeralValue(p) ==
    LET d == Unsigned(p)
        n == Len(d)
    IN  SumTo([i \in 1..n |-> DigitVal(d[i]) * Pow10(n - i)], n)

\* A file name the Filename Parser accepts: <int>-<rest>.
WellFormedName(f) == HasDash(f) /\ IsNumeral(Prefix(f))

\* C3: for every file name, newDDLFile returns the integer before the first
\* "-" as the ordering key when that prefix is a valid integer, and otherwise
\* returns an error value - never a crash and never a key - for a name with
\* no "-" as for a name with an empty or non-numeric prefix.
C3_ParserTotal ==
    res.op = "newDDLFile" =>
        IF WellFormedName(res.f)
        THEN /\ res.out.kind = "ok"
             /\ res.out.df.fileNumber = NumeralValue(Prefix(res.f))
        ELSE /\ res.out.kind = "err"
             /\ res.out.df = ZeroDDLFile

\* C6: KeywordValueConnectionString is exactly
\* "host=<host> port=<port> dbname=<name> user=<user>", then
\* " password=<password>" iff the password is non-empty, then
\* " sslmode=disable", then " search_path=<searchPath>" iff searchPath is
\* non-empty.
C6_KeywordValueForm ==
    res.op = "KeywordValueConnectionString" =>
        res.out = S_host \o dsn.Host \o S_port \o Itoa(dsn.Port)
                  \o S_dbname \o dsn.DBName \o S_user \o dsn.User
                  \o (IF dsn.Password # <<>> THEN S_password \o dsn.Password ELSE <<>>)
                  \o S_sslmode_disable
                  \o (IF dsn.SearchPath # <<>>
                      THEN <<" ">> \o S_search_path \o dsn.SearchPath ELSE <<>>)

C6_Witness ==
    /\ res.op = "KeywordValueConnectionString"
    /\ dsn.Password # <<>>
    /\ dsn.SearchPath # <<>>
    /\ dsn.Port # 0

\* The parts of the URI form: the user and the host percent-encoded, ":port"
\* iff the port is non-zero, "?options=-csearch_path%3D<searchPath>" iff the
\* search path is non-empty.
URIUserHost(d) ==
    S_scheme_slashes \o escape(d.User, "userPassword") \o <<"@">> \o escape(d.Host, "host")

URIPort(d) == IF d.Port # 0 THEN <<":">> \o Itoa(d.Port) ELSE <<>>

S_query_options == <<"?", "o", "p", "t", "i", "o", "n", "s", "=", "-", "c", "s", "e", "a", "r", "c", "h", "_", "p", "a", "t", "h", "%", "3", "D">>

URIQuery(d) ==
    IF d.SearchPath # <<>>
    THEN S_query_options \o escape(d.SearchPath, "queryComponent")
    ELSE <<>>

\* C7 as stated: for every PostgreSQLDSN, ConnectionURI is
\* postgresql://<user>@<host>[:<port>]/<name>[?options=...], ":<port>" iff
\* Port is non-zero, the query iff SearchPath is non-empty.
C7_URIFormEveryDSN ==
    res.op = "ConnectionURI" =>
        res.out = URIUserHost(dsn) \o URIPort(dsn) \o <<"/">>
                  \o escape(dsn.DBName, "path") \o URIQuery(dsn)

\* C7 amended: the same form, ":<port>" iff Port is non-zero and the query
\* iff SearchPath is non-empty for every PostgreSQLDSN, but the "/" before the
\* name is written only when host[:port] and DBName are both non-empty and
\* DBName does not itself begin with "/".
C7_URIForm ==
    res.op = "ConnectionURI" =>
        LET slash == IF /\ (dsn.Host # <<>> \/ dsn.Port # 0)
                        /\ dsn.DBName # <<>>
                        /\ Head(dsn.DBName) # "/"
                     THEN <<"/">> ELSE <<>>
        IN  res.out = URIUserHost(dsn) \o URIPort(dsn) \o slash
                      \o escape(dsn.DBName, "path") \o URIQuery(dsn)

C7_Witness ==
    /\ res.op = "ConnectionURI"
    /\ dsn.Port = 0
    /\ dsn.SearchPath # <<>>
    /\ dsn.Host # <<>>
    /\ dsn.DBName = <<>>

\* ------------------------------------------------- the mage targets (Spec)
IsTarget == res.op \in {"Up", "Down"}

\* The config file the call read, and whether it loaded.
TargetConfigPath == S_config_dir \o res.profile \o S_json

TargetConfigFile == configFiles[TargetConfigPath]

Loaded ==
    /\ IsTarget
    /\ TargetConfigPath \in DOMAIN configFiles
    /\ TargetConfigFile.state = "ok"

Succeeded == IsTarget /\ res.frame.status = "ok"

\* The directory the call listed, as the file system holds it.
Listed == fs[res.frame.dir]

ReadDirOk == Loaded /\ res.frame.dir \in DOMAIN fs /\ Listed.exists

NotDir(e) == ~e.isDir

FilesOf(d) == SelectSeq(d.entries, NotDir)

\* The file entries of a listing parsed as the Filename Parser is specified:
\* the name, and the numeral before its first "-" as the ordering key.
Parsed(d) ==
    [i \in 1..Len(FilesOf(d)) |->
        [filename |-> FilesOf(d)[i].name,
         fileNumber |-> NumeralValue(Prefix(FilesOf(d)[i].name))]]

AllWellFormed(d) == \A i \in 1..Len(FilesOf(d)) : WellFormedName(FilesOf(d)[i].name)

NonDecreasing(l) == \A i \in 1..(Len(l) - 1) : l[i].fileNumber <= l[i + 1].fileNumber

Increasing(l) == \A i \in 1..(Len(l) - 1) : l[i].fileNumber < l[i + 1].fileNumber

Count(l, x) == Cardinality({i \in 1..Len(l) : l[i] = x})

SameElements(l, m) == Len(l) = Len(m) /\ \A i \in 1..Len(l) : Count(l, l[i]) = Count(m, l[i])

\* The arguments after the prefix of five, as (flag, path) pairs.
NPairs(a) == (Len(a) - 5) \div 2
Flag(a, k) == a[4 + 2 * k]
Path(a, k) == a[5 + 2 * k]

\* The ordering key of an emitted path <dir>/<filename>.
PathKey(dir, path) == NumeralValue(Prefix(SubSeq(path, Len(dir) + 2, Len(path))))

\* C1: whenever PSQLArgs succeeds, the arguments start with the prefix
\* "-w", "-d", <ConnectionURI of the config>, "-c", <the fixed query>;
\* everything after it is a sequence of ("-f", path) pairs; and the pairs
\* are in ordering-key order (no pair's fileNumber is below an earlier one's).
C1_PrefixThenOrderedPairs ==
    Succeeded =>
        LET a == res.frame.args
        IN  /\ Len(a) >= 5
            /\ SubSeq(a, 1, 5) = <<S_w, S_d,
                                   ConnectionURI(newPostgreSQLDSN(TargetConfigFile)),
                                   S_c, S_select>>
            /\ Len(a) = 5 + 2 * NPairs(a)
            /\ \A k \in 1..NPairs(a) : Flag(a, k) = S_f /\ Path(a, k) # S_f
            /\ \A k \in 1..(NPairs(a) - 1) :
                  PathKey(res.frame.dir, Path(a, k)) <= PathKey(res.frame.dir, Path(a, k + 1))

\* PSQLArgs succeeded on a directory whose listing order is not the key order.
C1_Witness ==
    /\ Succeeded
    /\ NPairs(res.frame.args) >= 2
    /\ ~NonDecreasing(Parsed(Listed))

C4_ListerReportsEmpty ==
    (ReadDirOk /\ FilesOf(Listed) = <<>>) =>
        /\ res.frame.lister.kind = "err"

\* C4 amended: in that case readDDLFiles itself returns an empty list and
\* no error; it is its caller PSQLArgs that turns the empty list into an
\* error, returning no arguments, so that psql is not run.
C4_CallerReportsEmpty ==
    (ReadDirOk /\ FilesOf(Listed) = <<>>) =>
        /\ res.frame.lister = ListOk(<<>>)
        /\ res.frame.status = "err"
        /\ res.frame.err = "there are no DDL files to process"
        /\ res.frame.args = <<>>
        /\ ~res.psql.ran

\* A directory that holds subdirectories only.
C4_Witness ==
    /\ ReadDirOk
    /\ FilesOf(Listed) = <<>>
    /\ Listed.entries # <<>>
    /\ res.frame.status = "err"

\* C5: if a non-directory entry of the target directory has a name the
\* Filename Parser rejects, readDDLFiles returns that parse failure as an
\* error with no file list, and PSQLArgs returns an error with no argument
\* list.
C5_FailFast ==
    (ReadDirOk /\ ~AllWellFormed(Listed)) =>
        /\ res.frame.lister.kind = "err"
        /\ res.frame.lister.ddlFiles = <<>>
        /\ res.frame.status = "err"
        /\ res.frame.err = res.frame.lister.err
        /\ res.frame.args = <<>>

\* The config files with the database password of every profile set to pw.
WithPassword(files, pw) ==
    [p \in DOMAIN files |-> [files[p] EXCEPT !.Config.Database.Password = pw]]

\* C8: the password influences neither the URI nor the argument list: with
\* any other password in the configuration, ConnectionURI returns the same
\* string and PSQLArgs, on the same directories and direction, can return
\* exactly what it returned.
C8_PasswordNotInArgs ==
    Loaded =>
        \A pw \in Passwords \cup {<<"s">>} :
            /\ res.frame \in PSQLArgs(res.up, res.profile, WithPassword(configFiles, pw), fs)
            /\ Succeeded =>
                  res.frame.args[3] =
                      ConnectionURI([newPostgreSQLDSN(TargetConfigFile) EXCEPT !.Password = pw])

C8_Witness ==
    /\ Succeeded
    /\ TargetConfigFile.Config.Database.Password # <<>>

\* C9: on success the paths after "-f" are exactly the non-directory entries
\* of the target directory, each once; subdirectories never appear, and
\* whatever their names they never make the call fail; the list has
\* 5 + 2 * (number of file entries) elements.
C9_ExactlyTheFiles ==
    /\ Succeeded =>
          LET a == res.frame.args
              fileEntries == FilesOf(Listed)
          IN  /\ Len(a) = 5 + 2 * Len(fileEntries)
              /\ \A i \in 1..Len(fileEntries) :
                    Cardinality({k \in 1..NPairs(a) :
                        Path(a, k) = res.frame.dir \o <<"/">> \o fileEntries[i].name}) = 1
              /\ \A i \in 1..Len(Listed.entries) :
                    Listed.entries[i].isDir =>
                        \A k \in 1..NPairs(a) :
                            Path(a, k) # res.frame.dir \o <<"/">> \o Listed.entries[i].name
    /\ (ReadDirOk /\ AllWellFormed(Listed) /\ FilesOf(Listed) # <<>>) => Succeeded

\* Success on a directory that holds a file and a subdirectory whose name
\* does not parse.
C9_Witness ==
    /\ Succeeded
    /\ \E i \in 1..Len(Listed.entries) :
          Listed.entries[i].isDir /\ ~WellFormedName(Listed.entries[i].name)

\* C10: the direction alone selects the directory: Up reads only
\* <migrationScriptsDir>/up and every path is <migrationScriptsDir>/up/<a file
\* of it>, Down the same with /down; the other subdirectory has no influence
\* on the result.
DirOfTarget == TargetConfigFile.Config.MigrationScriptsDir
               \o (IF res.op = "Up" THEN S_up ELSE S_down)

OtherDirOfTarget == TargetConfigFile.Config.MigrationScriptsDir
                    \o (IF res.op = "Up" THEN S_down ELSE S_up)

\* What the other subdirectory is replaced by: nothing, an empty directory,
\* a directory of files the target directory does not hold.
OtherDirStates ==
    {MissingDir,
     [exists |-> TRUE, entries |-> <<>>],
     [exists |-> TRUE, entries |-> <<FileEntry(<<"0", "-", "o">>), FileEntry(<<"o">>)>>]}

C10_DirectionSelectsDir ==
    Loaded =>
        /\ res.frame.dir = DirOfTarget
        /\ Succeeded =>
              \A k \in 1..NPairs(res.frame.args) :
                  \E i \in 1..Len(FilesOf(fs[DirOfTarget])) :
                      Path(res.frame.args, k)
                          = DirOfTarget \o <<"/">> \o FilesOf(fs[DirOfTarget])[i].name
        /\ \A other \in OtherDirStates :
              res.frame \in PSQLArgs(res.op = "Up", res.profile, configFiles,
                                     [fs EXCEPT ![OtherDirOfTarget] = other])

\* Down succeeded while the up directory holds files of its own.
C10_Witness ==
    /\ Succeeded
    /\ res.op = "Down"
    /\ FilesOf(fs[OtherDirOfTarget]) # <<>>
    /\ FilesOf(fs[OtherDirOfTarget]) # FilesOf(fs[DirOfTarget])

====
